---- MODULE Spec2Model ----
(***************************************************************************)
(* Model of the PXL codec: compress.py, decompress.py and the combined     *)
(* tool pxl.py.  A byte buffer is a sequence of integers in 0..255, a file *)
(* is a record telling whether it was written and what it holds.           *)
(***************************************************************************)
EXTENDS Integers, Sequences, FiniteSets, TLC

VARIABLES original_data, comp, out_file, pxl_out_file, compressed_content,
          dec, pxl_dec

vars == <<original_data, comp, out_file, pxl_out_file, compressed_content,
          dec, pxl_dec>>

(***************************************************************************)
(* Format constants (compress.py, decompress.py)                           *)
(***************************************************************************)
MAGIC_NUMBER == <<80, 88, 76>>
RLE_MARKER_BYTE == 255
NO_SUB_BYTE == 0
\* Python's None where a byte value is expected
None == -1

\* Bounds of the model
MaxSegs == 3
MaxDrop == 2

(***************************************************************************)
(* Python built-ins used by the scripts                                    *)
(***************************************************************************)
Min(S) == CHOOSE x \in S : \A y \in S : x <= y

\* set(data)
ByteSet(data) == {data[k] : k \in 1..Len(data)}

\* data[a:b] with 0-based Python slice bounds, clamped to the buffer
Slice(data, a, b) ==
  SubSeq(data, a + 1, IF b < Len(data) THEN b ELSE Len(data))

\* data.startswith(prefix)
StartsWith(data, prefix) ==
  /\ Len(data) >= Len(prefix)
  /\ SubSeq(data, 1, Len(prefix)) = prefix

\* [v] * n
Repeat(v, n) == [k \in 1..n |-> v]

\* bytes.replace(old, new) for a 2-byte old: leftmost, non-overlapping.
\* The scan from 1-based position i, run for at most `steps` steps, gives
\* the position it stops at and the bytes it produced.
RECURSIVE ReplacePairScan(_, _, _, _, _)
ReplacePairScan(data, old, new, i, steps) ==
  IF steps = 0 \/ i > Len(data) THEN [i |-> i, out |-> <<>>]
  ELSE IF steps = 1
  THEN IF i < Len(data) /\ data[i] = old[1] /\ data[i + 1] = old[2]
       THEN [i |-> i + 2, out |-> new]
       ELSE [i |-> i + 1, out |-> <<data[i]>>]
  ELSE LET half == steps \div 2
           a == ReplacePairScan(data, old, new, i, half)
           b == ReplacePairScan(data, old, new, a.i, steps - half)
       IN [i |-> b.i, out |-> a.out \o b.out]

ReplacePair(data, old, new) ==
  ReplacePairScan(data, old, new, 1, Len(data)).out

\* bytearray.replace(old, new) for a 1-byte old, positions lo..hi
RECURSIVE ReplaceByteScan(_, _, _, _, _)
ReplaceByteScan(data, old, new, lo, hi) ==
  IF lo > hi THEN <<>>
  ELSE IF lo = hi THEN (IF data[lo] = old THEN new ELSE <<data[lo]>>)
  ELSE LET mid == (lo + hi) \div 2
       IN ReplaceByteScan(data, old, new, lo, mid)
          \o ReplaceByteScan(data, old, new, mid + 1, hi)

ReplaceByte(data, old, new) == ReplaceByteScan(data, old, new, 1, Len(data))

\* truth value of an Optional[int]: None and 0 are false
Truthy(x) == x # None /\ x # 0

(***************************************************************************)
(* collections.Counter over the adjacent pairs of data                     *)
(***************************************************************************)
\* the pair at index k is `pair`
PairIs(data, k, pair) == data[k] = pair[1] /\ data[k + 1] = pair[2]

PairAt(data, k) == <<data[k], data[k + 1]>>

\* the Counter entry of pair: the number of indices where it occurs
PairCount(data, pair) ==
  Cardinality({k \in 1..(Len(data) - 1) : PairIs(data, k, pair)})

\* the indices at which a new key enters the Counter: the pair there did
\* not occur at a smaller index.  Insertion order is ascending index.
InsertionPoints(data) ==
  {k \in 1..(Len(data) - 1) :
     \A j \in 1..(k - 1) : ~PairIs(data, j, PairAt(data, k))}

\* faulty variant: on equal counts the later item wins
BetterItemLastWins(count, bestCount) == count >= bestCount

\* most_common(1) is max(items, key=count): it walks the items in insertion
\* order and a later item replaces the best only when it compares greater
BetterItem(count, bestCount) == count > bestCount

NoItem == [pair |-> <<>>, count |-> 0]

\* the result of the walk over the keys inserted at indices lo..hi: the
\* walk over lo..mid, continued over mid+1..hi
RECURSIVE MaxScan(_, _, _, _)
MaxScan(data, points, lo, hi) ==
  IF lo > hi THEN NoItem
  ELSE IF lo = hi
  THEN IF lo \in points
       THEN [pair |-> PairAt(data, lo),
             count |-> PairCount(data, PairAt(data, lo))]
       ELSE NoItem
  ELSE LET mid == (lo + hi) \div 2
           left == MaxScan(data, points, lo, mid)
           right == MaxScan(data, points, mid + 1, hi)
       IN IF left.count = 0 THEN right
          ELSE IF right.count # 0 /\ BetterItem(right.count, left.count)
               THEN right
               ELSE left

\* pairs.most_common(1)[0] of a non-empty Counter
MostCommon(data) == MaxScan(data, InsertionPoints(data), 1, Len(data) - 1)

(***************************************************************************)
(* compress.py                                                             *)
(***************************************************************************)
\* faulty variant: a pair that occurs once is accepted
find_best_pair_once(data) ==
  IF Len(data) < 2 THEN <<>>
  ELSE LET top == MostCommon(data)
       IN IF top.count >= 1 THEN top.pair ELSE <<>>

\* find_best_pair: <<>> stands for None
find_best_pair(data) ==
  IF Len(data) < 2 THEN <<>>
  ELSE LET top == MostCommon(data)
       IN IF top.count > 1 THEN top.pair ELSE <<>>

\* faulty variant: the range runs up to the marker
SubRangeWithMarker == 128..255

\* range(128, 255)
SubRange == 128..254

\* faulty variant: only the bytes of the pair count as used
find_substitution_byte_pair_only(data, pair_to_replace) ==
  LET used_bytes == IF pair_to_replace # <<>>
                    THEN {pair_to_replace[1], pair_to_replace[2]} ELSE {}
      free == {byte_val \in SubRange : byte_val \notin used_bytes}
  IN IF free # {} THEN Min(free) ELSE None

find_substitution_byte(data, pair_to_replace) ==
  LET used_bytes == ByteSet(data) \cup
                    (IF pair_to_replace # <<>>
                     THEN {pair_to_replace[1], pair_to_replace[2]} ELSE {})
      free == {byte_val \in SubRange : byte_val \notin used_bytes}
  IN IF free # {} THEN Min(free) ELSE None

\* condition of the inner while loop (i is 1-based)
RunContinues(processed_data, i, run_count) ==
  /\ i + run_count <= Len(processed_data)
  /\ processed_data[i + run_count] = processed_data[i]
  /\ run_count < 255

\* run_count when the inner loop exits: the first value in lo..hi for
\* which the loop condition is false (it is false at 255)
RECURSIVE RunCountIn(_, _, _, _)
RunCountIn(processed_data, i, lo, hi) ==
  IF lo = hi THEN lo
  ELSE LET mid == (lo + hi) \div 2
       IN IF \A rc \in lo..mid : RunContinues(processed_data, i, rc)
          THEN RunCountIn(processed_data, i, mid + 1, hi)
          ELSE RunCountIn(processed_data, i, lo, mid)

RunCount(processed_data, i) == RunCountIn(processed_data, i, 1, 255)

\* faulty variant: the marker byte is not escaped
EncodeAsTripletNoEscape(run_count, current_byte) == run_count > 3

\* faulty variant: a run of 3 is already encoded
EncodeAsTripletFromThree(run_count, current_byte) ==
  run_count >= 3 \/ current_byte = RLE_MARKER_BYTE

\* the test that sends a run to the triplet branch
EncodeAsTriplet(run_count, current_byte) ==
  run_count > 3 \/ current_byte = RLE_MARKER_BYTE

\* the outer while loop of the run-length encoding, from position i for at
\* most `steps` iterations: where it stops and what it appended
RECURSIVE RleEncodeLoop(_, _, _)
RleEncodeLoop(processed_data, i, steps) ==
  IF steps = 0 \/ i > Len(processed_data) THEN [i |-> i, out |-> <<>>]
  ELSE IF steps = 1
  THEN LET current_byte == processed_data[i]
           run_count == RunCount(processed_data, i)
       IN [i |-> i + run_count,
           out |-> IF EncodeAsTriplet(run_count, current_byte)
                   THEN <<RLE_MARKER_BYTE, run_count, current_byte>>
                   ELSE SubSeq(processed_data, i, i + run_count - 1)]
  ELSE LET half == steps \div 2
           a == RleEncodeLoop(processed_data, i, half)
           b == RleEncodeLoop(processed_data, a.i, steps - half)
       IN [i |-> b.i, out |-> a.out \o b.out]

RleEncode(processed_data) ==
  RleEncodeLoop(processed_data, 1, Len(processed_data)).out

\* faulty variant: the marker byte of the header is written as 0
NoSubHeaderNoMarker == <<NO_SUB_BYTE, 0, 0, NO_SUB_BYTE>>

\* the header bytes written when no substitution was made
NoSubHeader == <<NO_SUB_BYTE, 0, 0, RLE_MARKER_BYTE>>

\* one run of compress(): its locals and the bytes written to output_file
compress(data) ==
  IF data = <<>>
  THEN [best_pair |-> <<>>, sub_byte |-> None, processed_data |-> <<>>,
        compressed_data |-> <<>>, file |-> MAGIC_NUMBER \o NoSubHeader]
  ELSE LET best_pair == find_best_pair(data)
           sub_byte == IF best_pair # <<>>
                       THEN find_substitution_byte(data, best_pair)
                       ELSE None
           processed_data == IF Truthy(sub_byte)
                             THEN ReplacePair(data, best_pair, <<sub_byte>>)
                             ELSE data
           compressed_data == RleEncode(processed_data)
           header == IF Truthy(sub_byte)
                     THEN <<sub_byte, best_pair[1], best_pair[2],
                            RLE_MARKER_BYTE>>
                     ELSE NoSubHeader
       IN [best_pair |-> best_pair, sub_byte |-> sub_byte,
           processed_data |-> processed_data,
           compressed_data |-> compressed_data,
           file |-> MAGIC_NUMBER \o header \o compressed_data]

(***************************************************************************)
(* decompress.py                                                           *)
(***************************************************************************)
\* faulty variant: a triplet that ends the data is taken as truncated
TruncatedAtOffByOne(i, compressed_data) == i + 3 >= Len(compressed_data)

\* the truncation test of the RLE decoder; i is the 0-based index of the
\* marker in compressed_data
TruncatedAt(i, compressed_data) == i + 2 >= Len(compressed_data)

\* the while loop of the decoder from 0-based index i for at most `steps`
\* iterations: where it stops, what it appended, whether it hit the
\* corrupted-sequence return
RECURSIVE RleDecodeLoop(_, _, _, _)
RleDecodeLoop(compressed_data, rle_marker_byte, i, steps) ==
  IF steps = 0 \/ i >= Len(compressed_data)
  THEN [i |-> i, out |-> <<>>, corrupted |-> FALSE]
  ELSE IF steps = 1
  THEN IF compressed_data[i + 1] = rle_marker_byte
       THEN IF TruncatedAt(i, compressed_data)
            THEN [i |-> i, out |-> <<>>, corrupted |-> TRUE]
            ELSE [i |-> i + 3,
                  out |-> Repeat(compressed_data[i + 3], compressed_data[i + 2]),
                  corrupted |-> FALSE]
       ELSE [i |-> i + 1, out |-> <<compressed_data[i + 1]>>,
             corrupted |-> FALSE]
  ELSE LET half == steps \div 2
           a == RleDecodeLoop(compressed_data, rle_marker_byte, i, half)
       IN IF a.corrupted THEN a
          ELSE LET b == RleDecodeLoop(compressed_data, rle_marker_byte, a.i,
                                      steps - half)
               IN [i |-> b.i, out |-> a.out \o b.out,
                   corrupted |-> b.corrupted]

\* outcome of one run of decompress(): how it ended, whether output_file
\* was written and with what
Outcome(status, written, content) ==
  [status |-> status, written |-> written, content |-> content]

Idle == Outcome("idle", FALSE, <<>>)

\* what the four-name unpacking of header does with fewer than 4 bytes
ShortHeader == Outcome("ValueError", FALSE, <<>>)

decompress(content) ==
  IF ~StartsWith(content, MAGIC_NUMBER)
  THEN Outcome("InvalidFormat", FALSE, <<>>)
  ELSE LET header == Slice(content, 3, 7)
       IN IF Len(header) # 4 THEN ShortHeader
          ELSE LET sub_byte == header[1]
                   orig_byte1 == header[2]
                   orig_byte2 == header[3]
                   rle_marker_byte == header[4]
                   compressed_data == Slice(content, 7, Len(content))
                   rle == RleDecodeLoop(compressed_data, rle_marker_byte, 0,
                                        Len(compressed_data))
               IN IF rle.corrupted
                  THEN Outcome("CorruptedStream", FALSE, <<>>)
                  ELSE Outcome("ok", TRUE,
                         IF sub_byte # NO_SUB_BYTE
                         THEN ReplaceByte(rle.out, sub_byte,
                                          <<orig_byte1, orig_byte2>>)
                         ELSE rle.out)

(***************************************************************************)
(* pxl.py: the combined tool                                               *)
(***************************************************************************)
PXL_MAGIC_NUMBER == <<80, 88, 76>>
PXL_RLE_MARKER_BYTE == 255
PXL_NO_SUB_BYTE == 0

pxl_find_best_pair(data) ==
  IF Len(data) < 2 THEN <<>>
  ELSE LET top == MostCommon(data)
       IN IF top.count > 1 THEN top.pair ELSE <<>>

pxl_find_substitution_byte(data, pair_to_replace) ==
  LET used_bytes == ByteSet(data) \cup
                    (IF pair_to_replace # <<>>
                     THEN {pair_to_replace[1], pair_to_replace[2]} ELSE {})
      free == {byte_val \in 128..254 : byte_val \notin used_bytes}
  IN IF free # {} THEN Min(free) ELSE None

pxl_RunContinues(processed_data, i, run_count) ==
  /\ i + run_count <= Len(processed_data)
  /\ processed_data[i + run_count] = processed_data[i]
  /\ run_count < 255

RECURSIVE pxl_RunCountIn(_, _, _, _)
pxl_RunCountIn(processed_data, i, lo, hi) ==
  IF lo = hi THEN lo
  ELSE LET mid == (lo + hi) \div 2
       IN IF \A rc \in lo..mid : pxl_RunContinues(processed_data, i, rc)
          THEN pxl_RunCountIn(processed_data, i, mid + 1, hi)
          ELSE pxl_RunCountIn(processed_data, i, lo, mid)

pxl_RunCount(processed_data, i) == pxl_RunCountIn(processed_data, i, 1, 255)

\* faulty variant: a run of 3 is already encoded
pxl_EncodeAsTripletFromThree(run_count, current_byte) ==
  run_count > 2 \/ current_byte = PXL_RLE_MARKER_BYTE

pxl_EncodeAsTriplet(run_count, current_byte) ==
  run_count > 3 \/ current_byte = PXL_RLE_MARKER_BYTE

RECURSIVE pxl_RleEncodeLoop(_, _, _)
pxl_RleEncodeLoop(processed_data, i, steps) ==
  IF steps = 0 \/ i > Len(processed_data) THEN [i |-> i, out |-> <<>>]
  ELSE IF steps = 1
  THEN LET current_byte == processed_data[i]
           run_count == pxl_RunCount(processed_data, i)
       IN [i |-> i + run_count,
           out |-> IF pxl_EncodeAsTriplet(run_count, current_byte)
                   THEN <<PXL_RLE_MARKER_BYTE, run_count, current_byte>>
                   ELSE SubSeq(processed_data, i, i + run_count - 1)]
  ELSE LET half == steps \div 2
           a == pxl_RleEncodeLoop(processed_data, i, half)
           b == pxl_RleEncodeLoop(processed_data, a.i, steps - half)
       IN [i |-> b.i, out |-> a.out \o b.out]

\* the bytes pxl.py's compress() writes to output_file
pxl_compress(data) ==
  IF data = <<>>
  THEN PXL_MAGIC_NUMBER \o <<PXL_NO_SUB_BYTE, 0, 0, PXL_RLE_MARKER_BYTE>>
  ELSE LET best_pair == pxl_find_best_pair(data)
           sub_byte == IF best_pair # <<>>
                       THEN pxl_find_substitution_byte(data, best_pair)
                       ELSE None
           processed_data == IF Truthy(sub_byte)
                             THEN ReplacePair(data, best_pair, <<sub_byte>>)
                             ELSE data
           compressed_data ==
             pxl_RleEncodeLoop(processed_data, 1, Len(processed_data)).out
       IN PXL_MAGIC_NUMBER
          \o (IF Truthy(sub_byte)
              THEN <<sub_byte, best_pair[1], best_pair[2], PXL_RLE_MARKER_BYTE>>
              ELSE <<PXL_NO_SUB_BYTE, 0, 0, PXL_RLE_MARKER_BYTE>>)
          \o compressed_data

pxl_TruncatedAt(i, compressed_data) == i + 2 >= Len(compressed_data)

RECURSIVE pxl_RleDecodeLoop(_, _, _, _)
pxl_RleDecodeLoop(compressed_data, rle_marker_byte, i, steps) ==
  IF steps = 0 \/ i >= Len(compressed_data)
  THEN [i |-> i, out |-> <<>>, corrupted |-> FALSE]
  ELSE IF steps = 1
  THEN IF compressed_data[i + 1] = rle_marker_byte
       THEN IF pxl_TruncatedAt(i, compressed_data)
            THEN [i |-> i, out |-> <<>>, corrupted |-> TRUE]
            ELSE [i |-> i + 3,
                  out |-> Repeat(compressed_data[i + 3], compressed_data[i + 2]),
                  corrupted |-> FALSE]
       ELSE [i |-> i + 1, out |-> <<compressed_data[i + 1]>>,
             corrupted |-> FALSE]
  ELSE LET half == steps \div 2
           a == pxl_RleDecodeLoop(compressed_data, rle_marker_byte, i, half)
       IN IF a.corrupted THEN a
          ELSE LET b == pxl_RleDecodeLoop(compressed_data, rle_marker_byte,
                                          a.i, steps - half)
               IN [i |-> b.i, out |-> a.out \o b.out,
                   corrupted |-> b.corrupted]

pxl_decompress(content) ==
  IF ~StartsWith(content, PXL_MAGIC_NUMBER)
  THEN Outcome("InvalidFormat", FALSE, <<>>)
  ELSE LET header == Slice(content, 3, 7)
       IN IF Len(header) # 4 THEN Outcome("ValueError", FALSE, <<>>)
          ELSE LET sub_byte == header[1]
                   orig_byte1 == header[2]
                   orig_byte2 == header[3]
                   rle_marker_byte == header[4]
                   compressed_data == Slice(content, 7, Len(content))
                   rle == pxl_RleDecodeLoop(compressed_data, rle_marker_byte,
                                            0, Len(compressed_data))
               IN IF rle.corrupted
                  THEN Outcome("CorruptedStream", FALSE, <<>>)
                  ELSE Outcome("ok", TRUE,
                         IF sub_byte # PXL_NO_SUB_BYTE
                         THEN ReplaceByte(rle.out, sub_byte,
                                          <<orig_byte1, orig_byte2>>)
                         ELSE rle.out)

(***************************************************************************)
(* Files                                                                   *)
(***************************************************************************)
NoFile == [written |-> FALSE, content |-> <<>>]
FileOf(bytes) == [written |-> TRUE, content |-> bytes]

\* lengths at which a copy of a .pxl file may be cut inside its header
HeaderCuts == {0, 2, 3, 6}

\* What may arrive at the decompressor for a written file f: f itself, f
\* with its last bytes missing, f cut inside the header, f followed by an
\* unfinished triplet, f with a damaged magic, marker or substitute byte.
Copies(f) ==
  {f}
  \cup {SubSeq(f, 1, Len(f) - k) : k \in 1..MaxDrop}
  \cup {SubSeq(f, 1, k) : k \in HeaderCuts}
  \cup {f \o <<f[7]>>, f \o <<f[7], 5>>}
  \cup {[f EXCEPT ![1] = 0], [f EXCEPT ![7] = 65], [f EXCEPT ![4] = 66]}

(***************************************************************************)
(* Inputs: up to MaxSegs short words, or a long head and one short word    *)
(***************************************************************************)
Words == {<<65>>, <<65, 66>>, <<255>>, <<128>>, Repeat(65, 4)}

RECURSIVE Bodies(_)
Bodies(n) ==
  IF n = 0 THEN {<<>>}
  ELSE Bodies(n - 1) \cup {b \o w : b \in Bodies(n - 1), w \in Words}

\* every value of 128..254 once: no substitute byte is free
HighBlock == [k \in 1..127 |-> 127 + k]

Heads == {HighBlock, HighBlock \o Repeat(65, 600), Repeat(66, 1024),
          Repeat(255, 600), HighBlock \o Repeat(255, 300)}

Inputs == Bodies(MaxSegs) \cup {h \o b : h \in Heads, b \in Bodies(1)}

\* the locals of compress() before any run
NoRun == [best_pair |-> <<>>, sub_byte |-> None, processed_data |-> <<>>,
          compressed_data |-> <<>>, file |-> <<>>]

Init ==
  /\ original_data \in Inputs
  /\ comp = NoRun
  /\ out_file = NoFile
  /\ pxl_out_file = NoFile
  /\ compressed_content = NoFile
  /\ dec = Idle
  /\ pxl_dec = Idle

\* python compress.py input output.pxl
Compress ==
  /\ ~out_file.written
  /\ comp' = compress(original_data)
  /\ out_file' = FileOf(comp'.file)
  /\ UNCHANGED <<original_data, pxl_out_file, compressed_content, dec, pxl_dec>>

\* python pxl.py input output.pxl
PxlCompress ==
  /\ ~pxl_out_file.written
  /\ ~compressed_content.written
  /\ pxl_out_file' = FileOf(pxl_compress(original_data))
  /\ UNCHANGED <<original_data, comp, out_file, compressed_content, dec,
                 pxl_dec>>

\* the .pxl file reaches the decompressor, intact or damaged
Transfer ==
  /\ out_file.written
  /\ ~compressed_content.written
  /\ \E c \in Copies(out_file.content) : compressed_content' = FileOf(c)
  /\ UNCHANGED <<original_data, comp, out_file, pxl_out_file, dec, pxl_dec>>

\* python decompress.py file.pxl restored
Decompress ==
  /\ compressed_content.written
  /\ dec = Idle
  /\ dec' = decompress(compressed_content.content)
  /\ UNCHANGED <<original_data, comp, out_file, pxl_out_file,
                 compressed_content, pxl_dec>>

\* python pxl.py -d file.pxl restored
PxlDecompress ==
  /\ compressed_content.written
  /\ pxl_dec = Idle
  /\ pxl_dec' = pxl_decompress(compressed_content.content)
  /\ UNCHANGED <<original_data, comp, out_file, pxl_out_file,
                 compressed_content, dec>>

\* compress.py alone
NextCompress == Compress

SpecCompress == Init /\ [][NextCompress]_vars

\* the standalone scripts
Next == Compress \/ Transfer \/ Decompress

Spec == Init /\ [][Next]_vars

\* the standalone scripts and the combined tool on the same files
NextTools == Compress \/ PxlCompress \/ Transfer \/ Decompress \/ PxlDecompress

SpecTools == Init /\ [][NextTools]_vars

(***************************************************************************)
(* Notions the properties are stated with                                  *)
(***************************************************************************)
Max(S) == CHOOSE x \in S : \A y \in S : x >= y

\* number of occurrences of byte b in buf
CountByte(buf, b) == Cardinality({k \in 1..Len(buf) : buf[k] = b})

\* the largest number of occurrences of an adjacent pair of buf, every
\* index counted; 0 when buf has no pair
PairsOf(buf) == {PairAt(buf, k) : k \in 1..(Len(buf) - 1)}

MaxPairCount(buf) ==
  IF PairsOf(buf) = {} THEN 0
  ELSE Max({PairCount(buf, q) : q \in PairsOf(buf)})

\* first index at which pair occurs in buf
FirstOccurrence(buf, pair) ==
  Min({k \in 1..(Len(buf) - 1) : PairIs(buf, k, pair)})

\* The positions of a payload at which a record starts when it is read
\* from the left with marker m: a marker starts a 3-byte record, any other
\* byte a 1-byte record.
RECURSIVE RecordWalk(_, _, _, _)
RecordWalk(payload, m, p, steps) ==
  IF steps = 0 \/ p > Len(payload) THEN [p |-> p, starts |-> {}]
  ELSE IF steps = 1
  THEN [p |-> IF payload[p] = m THEN p + 3 ELSE p + 1, starts |-> {p}]
  ELSE LET half == steps \div 2
           a == RecordWalk(payload, m, p, half)
           b == RecordWalk(payload, m, a.p, steps - half)
       IN [p |-> b.p, starts |-> a.starts \cup b.starts]

RecordStarts(payload, m) == RecordWalk(payload, m, 1, Len(payload)).starts

\* the records of a payload that are complete triplets
Triplets(payload, m) ==
  {p \in RecordStarts(payload, m) : payload[p] = m /\ p + 2 <= Len(payload)}

\* total of the counts of the triplets at positions lo..hi whose value is v
RECURSIVE TripletTotal(_, _, _, _, _)
TripletTotal(payload, triplets, v, lo, hi) ==
  IF lo > hi THEN 0
  ELSE IF lo = hi
  THEN (IF lo \in triplets /\ payload[lo + 2] = v THEN payload[lo + 1] ELSE 0)
  ELSE LET mid == (lo + hi) \div 2
       IN TripletTotal(payload, triplets, v, lo, mid)
          + TripletTotal(payload, triplets, v, mid + 1, hi)

\* number of bytes of value v that the triplets of the payload stand for
BytesInTriplets(payload, v) ==
  TripletTotal(payload, Triplets(payload, RLE_MARKER_BYTE), v, 1, Len(payload))

\* Reference run-length encoding.  A run boundary is a position whose byte
\* differs from the one before it; the maximal run at boundary s ends
\* before the next boundary; it is cut every 255 bytes.
Boundaries(buf) == {p \in 1..Len(buf) : p = 1 \/ buf[p] # buf[p - 1]}

\* last position of the run that starts at boundary s
RunEnd(buf, boundaries, s) ==
  Min({q \in (boundaries \cup {Len(buf) + 1}) : q > s}) - 1

Cuts(buf) ==
  LET boundaries == Boundaries(buf)
  IN UNION {{s + 255 * k : k \in 0..((RunEnd(buf, boundaries, s) - s) \div 255)} :
              s \in boundaries}

\* length of the piece that starts at cut c
PieceLen(buf, cuts, c) ==
  Min({q \in (cuts \cup {Len(buf) + 1}) : q > c}) - c

EmitPiece(buf, cuts, c) ==
  LET n == PieceLen(buf, cuts, c)
  IN IF n > 3 \/ buf[c] = 255 THEN <<255, n, buf[c]>> ELSE Repeat(buf[c], n)

RECURSIVE EmitPieces(_, _, _, _)
EmitPieces(buf, cuts, lo, hi) ==
  IF lo > hi THEN <<>>
  ELSE IF lo = hi
  THEN (IF lo \in cuts THEN EmitPiece(buf, cuts, lo) ELSE <<>>)
  ELSE LET mid == (lo + hi) \div 2
       IN EmitPieces(buf, cuts, lo, mid) \o EmitPieces(buf, cuts, mid + 1, hi)

ReferenceEncoding(buf) == EmitPieces(buf, Cuts(buf), 1, Len(buf))

\* the payload of a file with a full header
Payload(content) == Slice(content, 7, Len(content))

Intact == compressed_content = out_file
Decoded == dec.status # "idle"

(***************************************************************************)
(* Properties                                                              *)
(***************************************************************************)

\* C1: round trip. When decompress has run on the file that compress wrote
\* for a non-empty input, it has written exactly the input.
RoundTrip ==
  (Decoded /\ Intact /\ original_data # <<>>)
    => dec = Outcome("ok", TRUE, original_data)

\* C1 witness: a round trip of an input longer than 255 bytes that holds
\* 0xFF and a byte of 128..254 and whose substituted pair holds 0xFF
RoundTripWitness ==
  /\ Decoded /\ Intact
  /\ Len(original_data) > 255
  /\ 255 \in ByteSet(original_data)
  /\ ByteSet(original_data) \cap SubRange # {}
  /\ Truthy(comp.sub_byte)
  /\ 255 \in ByteSet(comp.best_pair)
  /\ dec.content = original_data

\* C2: corrupted tail. For a file with magic and full header, decompress
\* ends with CorruptedStream and no output exactly when the left-to-right
\* reading of the payload reaches a marker with fewer than 2 bytes after it.
CorruptedTail ==
  LET c == compressed_content.content
  IN (Decoded /\ StartsWith(c, MAGIC_NUMBER) /\ Len(c) >= 7)
       => LET payload == Payload(c)
              truncated == \E p \in RecordStarts(payload, c[7]) :
                              payload[p] = c[7] /\ Len(payload) - p < 2
          IN /\ truncated => dec = Outcome("CorruptedStream", FALSE, <<>>)
             /\ dec.status = "CorruptedStream" => truncated

\* C2 witness: the file of compress followed by `marker, count` was rejected
CorruptedTailWitness ==
  /\ out_file.written
  /\ Len(original_data) > 0
  /\ compressed_content.content = out_file.content \o <<255, 5>>
  /\ dec.status = "CorruptedStream"

\* C3 as stated: every 0xFF byte of the input is stood for by a triplet
\* (0xFF, count, 0xFF) of the payload.
MarkerEscapingOfInput ==
  out_file.written
    => BytesInTriplets(comp.compressed_data, 255) = CountByte(original_data, 255)

\* C3 amended: every 0xFF byte of the buffer after substitution is stood
\* for by a triplet (0xFF, count, 0xFF), whatever its run length, and the 0xFF
\* bytes of the input that are missing from that buffer are those of the
\* replaced occurrences of the substituted pair.
MarkerEscaping ==
  out_file.written
    => /\ BytesInTriplets(comp.compressed_data, 255)
            = CountByte(comp.processed_data, 255)
       /\ \A p \in RecordStarts(comp.compressed_data, 255) :
            comp.compressed_data[p] = 255 => p + 2 <= Len(comp.compressed_data)
       /\ CountByte(original_data, 255)
            = CountByte(comp.processed_data, 255)
              + (IF Truthy(comp.sub_byte)
                 THEN CountByte(comp.best_pair, 255)
                      * CountByte(comp.processed_data, comp.sub_byte)
                 ELSE 0)

\* C3 witness: the substituted pair holds 0xFF and a 0xFF is left over
MarkerEscapingWitness ==
  /\ out_file.written
  /\ Truthy(comp.sub_byte)
  /\ 255 \in ByteSet(comp.best_pair)
  /\ 255 \in ByteSet(comp.processed_data)

\* C4 as stated: decompress always ends with an output, InvalidFormat
\* (exactly when the magic is missing) or CorruptedStream, and an error
\* leaves no output.
DecompressTotal ==
  Decoded
    => /\ dec.status \in {"ok", "InvalidFormat", "CorruptedStream"}
       /\ dec.status = "InvalidFormat"
            <=> ~StartsWith(compressed_content.content, MAGIC_NUMBER)
       /\ dec.status # "ok" => ~dec.written /\ dec.content = <<>>

\* C5: the payload is the reference encoding of the buffer after
\* substitution, and every triplet in it has a count in 1..255.
RlePolicy ==
  out_file.written
    => /\ comp.compressed_data = ReferenceEncoding(comp.processed_data)
       /\ Payload(out_file.content) = comp.compressed_data
       /\ \A p \in Triplets(comp.compressed_data, 255) :
            comp.compressed_data[p + 1] \in 1..255

\* C5 witness: after 128..254 written literally, a run of 600 was written
\* as triplets of 255, 255 and 90 and a single 0xFF as a triplet of 1
RlePolicyWitness ==
  /\ out_file.written
  /\ original_data = HighBlock \o Repeat(65, 600) \o <<255>>
  /\ SubSeq(comp.compressed_data, 125, 139)
       = <<252, 253, 254, 255, 255, 65, 255, 255, 65, 255, 90, 65, 255, 1, 255>>

\* C6: no substitution exactly when no adjacent pair occurs more than once
\* or no value of 128..254 is free; then the header is (0, 0, 0) and the
\* input is encoded unchanged; otherwise sub_byte is non-zero and header
\* bytes 4..5 are the pair found, a pair of maximal count.
PairThreshold ==
  out_file.written
    => LET f == out_file.content
           noSub == \/ MaxPairCount(original_data) <= 1
                    \/ SubRange \subseteq ByteSet(original_data)
       IN /\ noSub => /\ SubSeq(f, 4, 6) = <<0, 0, 0>>
                      /\ comp.processed_data = original_data
                      /\ Payload(f) = comp.compressed_data
          /\ ~noSub => /\ f[4] # 0
                       /\ <<f[5], f[6]>> = comp.best_pair
                       /\ PairCount(original_data, <<f[5], f[6]>>)
                            = MaxPairCount(original_data)

\* C6 witness: a pair repeats but no substitute byte is free
PairThresholdWitness ==
  /\ out_file.written
  /\ MaxPairCount(original_data) > 1
  /\ SubRange \subseteq ByteSet(original_data)
  /\ SubSeq(out_file.content, 4, 6) = <<0, 0, 0>>

\* C7: header invariant. Magic, marker 0xFF, and sub_byte 0 or the smallest
\* value of 128..254 absent from the input, never 0xFF nor a byte of the pair.
HeaderInvariant ==
  out_file.written
    => LET f == out_file.content
       IN /\ SubSeq(f, 1, 3) = <<80, 88, 76>>
          /\ f[7] = 255
          /\ \/ f[4] = 0
             \/ /\ f[4] \in 128..254
                /\ f[4] \notin ByteSet(original_data)
                /\ \A b \in 128..(f[4] - 1) : b \in ByteSet(original_data)
                /\ f[4] # 255
                /\ f[4] # f[5] /\ f[4] # f[6]

\* C7 witness: 128 is taken by the input, so sub_byte is 129
HeaderInvariantWitness ==
  /\ out_file.written
  /\ 128 \in ByteSet(original_data)
  /\ out_file.content[4] = 129

\* C8: the empty input gives the 7-byte header-only file, and decompress of
\* that file succeeds with an empty output.
EmptyIdentity ==
  original_data = <<>>
    => /\ out_file.written => out_file.content = <<80, 88, 76, 0, 0, 0, 255>>
       /\ (Decoded /\ Intact) => dec = Outcome("ok", TRUE, <<>>)

\* C8 witness: the header-only file was decompressed
EmptyIdentityWitness ==
  /\ original_data = <<>>
  /\ Intact
  /\ dec.status = "ok"

\* C9: for an input of at least 2 bytes find_best_pair gives none when no
\* pair occurs more than once, and otherwise a pair of maximal count whose
\* first occurrence is the earliest among the pairs of maximal count.
BestPairTieBreak ==
  (out_file.written /\ Len(original_data) >= 2)
    => LET m == MaxPairCount(original_data)
           best == comp.best_pair
       IN /\ m <= 1 => best = <<>>
          /\ m > 1 =>
               /\ best # <<>>
               /\ PairCount(original_data, best) = m
               /\ \A q \in PairsOf(original_data) :
                    PairCount(original_data, q) = m
                      => FirstOccurrence(original_data, best)
                           <= FirstOccurrence(original_data, q)

\* C9 witness: two different pairs share the maximal count, which is above 1
BestPairTieBreakWitness ==
  /\ out_file.written
  /\ comp.best_pair # <<>>
  /\ \E q \in PairsOf(original_data) :
       /\ q # comp.best_pair
       /\ PairCount(original_data, q)
            = PairCount(original_data, comp.best_pair)

\* C10: pxl.py writes the file compress.py writes, and on the same file
\* its decompress ends as decompress.py's does.
SameCodec ==
  /\ (out_file.written /\ pxl_out_file.written) => pxl_out_file = out_file
  /\ (Decoded /\ pxl_dec.status # "idle") => pxl_dec = dec

\* C10 witness: both tools compressed with a substitution and both
\* decompressed a damaged copy
SameCodecWitness ==
  /\ out_file.written /\ pxl_out_file.written
  /\ Truthy(comp.sub_byte)
  /\ ~Intact
  /\ dec.status = "ok" /\ pxl_dec.status = "ok"
====
